---- MODULE Spec2Model ----
(***************************************************************************)
(* The span registry of tracing-subscriber (registry/sharded.rs): a pool   *)
(* of DataInner entries, atomic per-span reference counts, per-thread      *)
(* span stacks, the CLOSE_COUNT / CloseGuard deferred-close protocol and   *)
(* the cascade of closes from a cleared child to its parent.               *)
(*                                                                         *)
(* Every thread has a call stack `calls[t]` of the calls it is inside of.  *)
(* A step of the model is one access to shared state (an atomic on a       *)
(* ref_count, a pool operation, a SPAN_TRACKER access) together with the   *)
(* thread-local work around it.                                            *)
(*                                                                         *)
(* A panic is fatal to the process (spec section 7): `fatal` becomes TRUE  *)
(* and nothing runs after it.                                              *)
(*                                                                         *)
(* SpanInfo's counters (too_many_refs, panicking) are only ever written,   *)
(* so SPAN_TRACKER is modelled by its key set.                             *)
(***************************************************************************)
EXTENDS Integers, Sequences, FiniteSets, TLC

\* ------------------------------------------------------------------ bounds
NumSlots == 3
NumThreads == 2
ConcSlots == 2
DataSlots == 2
OrderSlots == 1
MaxLayers == 2
MaxRefs == 3
MaxEntered == 3
MaxFilters == 1

\* --------------------------------------------------------- program constants
\* FilterMap::default(): no filter has disabled the span.
FilterMapDefault == 0
\* The id 0 is reserved; Option<Id>::None is written 0.
NoId == 0
\* Stands for usize::MAX, the value a fetch_sub on 0 wraps to.
UsizeMax == 2147483647
\* next_filter_id is a u8.
U8Modulus == 256

Threads == 1..NumThreads
Idx == 0..(NumSlots - 1)
Ids == 1..NumSlots
Metas == {"m1", "m2"}
NullMetadata == "null"
ExtTypes == {"SetRemoved"}

VARIABLES
    spans,           \* Registry.spans: the pool, idx -> slot
    current_spans,   \* Registry.current_spans: thread -> SpanStack
    next_filter_id,  \* Registry.next_filter_id
    CLOSE_COUNT,     \* thread-local close depth
    SPAN_TRACKER,    \* keys of the SPAN_TRACKER map
    LIVE_SPANS,
    OPEN_SPANS,
    IN_SPANS,
    num_layers,      \* how many Layered wrap the registry
    calls,           \* thread -> call stack (innermost call last)
    handles,         \* id -> Span handles held by user code
    fatal,           \* a panic has ended the process
    created,         \* history: idx -> what new_span made the span in the slot from
    enters,          \* history: thread -> the enters not yet exited, oldest first
    sync             \* history: idx -> the writes to the slot by threads that hold a
                     \* reference, and what the orderings on ref_count make of them

vars == <<spans, current_spans, next_filter_id, CLOSE_COUNT, SPAN_TRACKER,
          LIVE_SPANS, OPEN_SPANS, IN_SPANS, num_layers, calls, handles, fatal,
          created, enters, sync>>

\* ------------------------------------------------------------------ ids
idx_to_id(idx) == idx + 1

id_to_idx(id) == id - 1

\* ------------------------------------------------------------ DataInner
\* DataInner::default(), plus the slot's life in the pool:
\* "free", "present", "marked" (clear asked for while a Ref is out),
\* "clearing" (DataInner::clear is running).
DataInnerDefault ==
    [life |-> "free", filter_map |-> FilterMapDefault, metadata |-> NullMetadata,
     parent |-> NoId, ref_count |-> 0, extensions |-> {}]

\* ------------------------------------------------------------ call frames
Frame(op, id, pc) ==
    [op |-> op, id |-> id, pc |-> pc, layer |-> 0, refs |-> 0, is_closing |-> FALSE]

Top(t) == calls[t][Len(calls[t])]

Idle(t) == calls[t] = <<>>

InCallback(t) == ~Idle(t) /\ Top(t).op = "try_close" /\ Top(t).pc = "on_close"

SetTop(t, f) == [calls[t] EXCEPT ![Len(calls[t])] = f]

Front(s) == SubSeq(s, 1, Len(s) - 1)

\* ------------------------------------------------------------------ pool
\* Pool::get: a Ref to the slot, or nothing when the key is stale.
Get(id) == id \in Ids /\ spans[id_to_idx(id)].life = "present"

\* The frames, of every thread, that satisfy Sel(frame).
FramesWhere(Sel(_)) ==
    UNION {{<<t, i>> : i \in {j \in DOMAIN calls[t] : Sel(calls[t][j])}} : t \in Threads}

\* Refs to a slot held across steps: Registry::try_close keeps `span`
\* from its get to its return.
Readers(idx) ==
    LET HoldsRef(f) == /\ f.op = "try_close"
                       /\ f.id = idx_to_id(idx)
                       /\ f.pc \in {"track", "ret"}
    IN Cardinality(FramesWhere(HoldsRef))

\* Mutant: the extensions are left in the slot.
ClearDataKeepsExtensions(s, idx) ==
    [s EXCEPT ![idx].filter_map = FilterMapDefault,
              ![idx].life = "free"]

\* What DataInner::clear does after the parent is dealt with, and
\* the pool taking the slot back.
ClearData(s, idx) ==
    [s EXCEPT ![idx].extensions = {},
              ![idx].filter_map = FilterMapDefault,
              ![idx].life = "free"]

\* ------------------------------------------------------------- SpanStack
\* Entries are [id, n]: n counts the pushes of id made while it was on top.
StackIds(stk) == {stk[i].id : i \in DOMAIN stk}

Entered(stk) ==
    LET RECURSIVE Sum(_)
        Sum(i) == IF i = 0 THEN 0 ELSE stk[i].n + Sum(i - 1)
    IN Sum(Len(stk))

\* push: TRUE when a new entry was made, FALSE when id was the top already.
PushIsNew(stk, id) == ~(stk /= <<>> /\ stk[Len(stk)].id = id)

Push(stk, id) ==
    IF PushIsNew(stk, id)
    THEN Append(stk, [id |-> id, n |-> 1])
    ELSE [stk EXCEPT ![Len(stk)].n = @ + 1]

\* The topmost entry of id (0 when there is none).
TopmostOf(stk, id) ==
    IF id \in StackIds(stk)
    THEN CHOOSE i \in DOMAIN stk :
            /\ stk[i].id = id
            /\ \A j \in DOMAIN stk : stk[j].id = id => j <= i
    ELSE 0

\* pop: TRUE when the entry was removed, FALSE when only its count dropped
\* (or id was not there).
PopRemoves(stk, id) ==
    LET i == TopmostOf(stk, id) IN i /= 0 /\ stk[i].n = 1

Pop(stk, id) ==
    LET i == TopmostOf(stk, id) IN
    IF i = 0 THEN stk
    ELSE IF stk[i].n > 1 THEN [stk EXCEPT ![i].n = @ - 1]
    ELSE SubSeq(stk, 1, i - 1) \o SubSeq(stk, i + 1, Len(stk))

Current(stk) == IF stk = <<>> THEN NoId ELSE stk[Len(stk)].id

\* The sequence without its last occurrence of id.
RemoveLast(log, id) ==
    LET at == {i \in DOMAIN log : log[i] = id} IN
    IF at = {} THEN log
    ELSE LET last == CHOOSE i \in at : \A j \in at : j <= i
         IN SubSeq(log, 1, last - 1) \o SubSeq(log, last + 1, Len(log))

\* ------------------------------------------------------------- Registry
has_per_layer_filters == next_filter_id > 0

\* span_data: the view of a span, as a set that is empty when there is none.
span_data(id) ==
    IF Get(id)
    THEN LET d == spans[id_to_idx(id)] IN
         {[id |-> id, metadata |-> d.metadata, parent |-> d.parent,
           extensions |-> d.extensions, filter_map |-> d.filter_map]}
    ELSE {}

\* current_span().id(): the top of the thread's stack, when the pool has it.
current_span(t) ==
    LET id == Current(current_spans[t]) IN
    IF id /= NoId /\ Get(id) THEN id ELSE NoId

\* Mutant: current_span is the span entered first.
current_span_oldest(t) ==
    LET stk == current_spans[t] IN
    IF stk /= <<>> /\ Get(stk[1].id)
    THEN {[id |-> stk[1].id, metadata |-> spans[id_to_idx(stk[1].id)].metadata]}
    ELSE {}

\* current_span(): the id and the metadata, as a set that is empty for
\* Current::none().
current_span_data(t) ==
    LET id == Current(current_spans[t]) IN
    IF id /= NoId /\ Get(id)
    THEN {[id |-> id, metadata |-> spans[id_to_idx(id)].metadata]}
    ELSE {}

\* Mutant: clone_span returns whenever the slot is there.
CloneReturnsIfPresent(id) == Get(id)

\* clone_span returns (rather than panics): the slot is there, the count
\* before the increment was not 0, and SPAN_TRACKER has the id.
CloneReturns(id) ==
    /\ Get(id)
    /\ spans[id_to_idx(id)].ref_count /= 0
    /\ id \in SPAN_TRACKER

\* Mutant: clone_span adds two references.
CloneAddsTwo(s, id) ==
    [s EXCEPT ![id_to_idx(id)].ref_count = @ + 2]

\* Mutant: clone_span adds no reference.
CloneAddsNothing(s, id) == s

\* The pool after clone_span(id): the fetch_add happens whenever the slot is
\* found, before the assertion.
CloneAdd(s, id) ==
    IF Get(id) THEN [s EXCEPT ![id_to_idx(id)].ref_count = @ + 1] ELSE s

\* Mutant: the second to last reference closes the span.
OtherRefsRemainTooFew(refs) == refs > 2

\* try_close: other references remain after this decrement.
OtherRefsRemain(refs) == refs > 1

\* Mutant: the decrement takes two references.
FetchSubTwice(refs) == IF refs < 2 THEN UsizeMax ELSE refs - 2

\* fetch_sub(1) on a usize.
FetchSub(refs) == IF refs = 0 THEN UsizeMax ELSE refs - 1

\* Mutant: the outermost guard reclaims, closing or not.
ShouldReclaimOutermost(c, is_closing) == c = 1

\* Mutant: every closing guard reclaims, whatever the depth.
ShouldReclaimAnyDepth(c, is_closing) == is_closing

\* Mutant: the depth is compared after the decrement.
ShouldReclaimAfterDecrement(c, is_closing) == c - 1 = 1 /\ is_closing

\* CloseGuard::drop: this guard reclaims the slot.
ShouldReclaim(c, is_closing) == c = 1 /\ is_closing

\* ----------------------------------------------------------- returning
\* No write to the slot is outstanding.
SyncNone == [written |-> {}, released |-> {}, seen |-> {}]

\* A decrement that publishes nothing (Ordering::Relaxed).
FetchSubRelaxed(t, idx) == sync[idx].released

\* ref_count.fetch_sub(1, Ordering::Release): the writes the thread made to
\* the slot are published with the decrement, on top of what the decrements
\* before it in the release sequence published.
FetchSubRelease(t, idx) == sync[idx].released \cup (sync[idx].written \cap {t})

\* fence(Ordering::Acquire) after the decrement that saw 1: the thread has
\* its own writes, and it synchronizes with every release decrement before
\* its own.
FenceAcquire(t, idx) == sync[idx].released \cup (sync[idx].written \cap {t})

\* A guard's drop that takes two off the depth.
GuardDroppedTwice(c) == c - 2

\* CloseGuard::drop: count.set(c - 1).
GuardDropped(c) == c - 1

NumExit(stk) == Cardinality({i \in DOMAIN stk : stk[i].op = "exit"})

\* The call stack once its top call has returned; an exit() that was waiting
\* for it returns too.
PopRet(stk) ==
    LET r == Front(stk) IN
    IF r /= <<>> /\ r[Len(r)].op = "exit" THEN Front(r) ELSE r

\* Layered::try_close of layer top.layer has dropped its guard and returns
\* true: the next layer out marks its guard closing and runs its on_close.
ReturnTrue(stk) ==
    LET f == stk[Len(stk)] IN
    IF f.layer < num_layers
    THEN [stk EXCEPT ![Len(stk)] =
            [f EXCEPT !.layer = @ + 1, !.is_closing = TRUE, !.pc = "on_close"]]
    ELSE PopRet(stk)


\* The history of a slot ends when the pool has the slot back.
NoAttrs ==
    [metadata |-> NullMetadata, filter_map |-> FilterMapDefault, extensions |-> {},
     parent |-> NoId]

Forget(s) == [i \in Idx |-> IF s[i].life = "free" THEN NoAttrs ELSE created[i]]

\* --------------------------------------------------------------- Init
\* Registry::default() under a stack of 1..MaxLayers layers.
Init ==
    /\ spans = [i \in Idx |-> DataInnerDefault]
    /\ current_spans = [t \in Threads |-> <<>>]
    /\ next_filter_id = 0
    /\ CLOSE_COUNT = [t \in Threads |-> 0]
    /\ SPAN_TRACKER = {}
    /\ LIVE_SPANS = 0
    /\ OPEN_SPANS = 0
    /\ IN_SPANS = 0
    /\ num_layers \in 1..MaxLayers
    /\ calls = [t \in Threads |-> <<>>]
    /\ handles = [id \in Ids |-> 0]
    /\ fatal = FALSE
    /\ created = [i \in Idx |-> NoAttrs]
    /\ enters = [t \in Threads |-> <<>>]
    /\ sync = [i \in Idx |-> SyncNone]

\* ------------------------------------------------------------- actions
\* register_filter (&mut self: nothing else is running), while fewer than
\* `cap` filters are registered. `next_filter_id += 1` on a u8 that holds its
\* largest value overflows: the build with overflow checks panics there, the
\* build without them wraps to 0.
RegisterFilterUpTo(cap) ==
    /\ ~fatal
    /\ \A t \in Threads : Idle(t)
    /\ next_filter_id < cap
    /\ \/ /\ next_filter_id' = (next_filter_id + 1) % U8Modulus
          /\ fatal' = FALSE
       \/ /\ next_filter_id + 1 = U8Modulus
          /\ next_filter_id' = next_filter_id
          /\ fatal' = TRUE
    /\ UNCHANGED <<spans, current_spans, CLOSE_COUNT, SPAN_TRACKER, LIVE_SPANS,
                   OPEN_SPANS, IN_SPANS, num_layers, calls, handles, created,
                   enters, sync>>

RegisterFilter == RegisterFilterUpTo(MaxFilters)

\* The parent new_span resolves: the attributes are root, contextual or name
\* `pid`, a span the caller holds a handle of.
ParentOf(t, kind, pid) ==
    IF kind = "root" THEN NoId
    ELSE IF kind = "contextual" THEN current_span(t)
    ELSE pid

\* new_span through the layers: the registry checks a slot out and fills it,
\* then the layers' on_new_span put `ext` into its extensions.
NewSpan(t, pool, md, fm, ext, kind, pid) ==
    /\ ~fatal
    /\ Idle(t)
    /\ IF kind = "explicit" THEN handles[pid] > 0 ELSE pid = 1
    /\ fm /= FilterMapDefault => has_per_layer_filters
    /\ LET p == ParentOf(t, kind, pid) IN
       /\ p /= NoId => spans[id_to_idx(p)].ref_count < MaxRefs
       /\ IF p /= NoId /\ ~CloneReturns(p)
          THEN /\ spans' = CloneAdd(spans, p)
               /\ fatal' = TRUE
               /\ UNCHANGED <<SPAN_TRACKER, LIVE_SPANS, OPEN_SPANS, handles, created>>
          ELSE \E idx \in pool :
               /\ spans[idx].life = "free"
               /\ spans' =
                    [(IF p = NoId THEN spans ELSE CloneAdd(spans, p)) EXCEPT ![idx] =
                        [life |-> "present", filter_map |-> fm, metadata |-> md,
                         parent |-> p, ref_count |-> 1,
                         extensions |-> spans[idx].extensions \cup ext]]
               /\ SPAN_TRACKER' = SPAN_TRACKER \cup {idx_to_id(idx)}
               /\ LIVE_SPANS' = LIVE_SPANS + 1
               /\ OPEN_SPANS' = OPEN_SPANS + 1
               /\ handles' = [handles EXCEPT ![idx_to_id(idx)] = @ + 1]
               /\ fatal' = FALSE
               /\ created' = [created EXCEPT ![idx] =
                        [metadata |-> md, filter_map |-> fm, extensions |-> ext,
                         parent |-> p]]
    /\ UNCHANGED <<current_spans, next_filter_id, CLOSE_COUNT, IN_SPANS,
                   num_layers, calls,
                   enters, sync>>

\* Span::clone: clone_span on a handle the caller holds.
CloneHandle(t, id) ==
    /\ ~fatal
    /\ Idle(t)
    /\ handles[id] > 0
    /\ spans[id_to_idx(id)].ref_count < MaxRefs
    /\ spans' = CloneAdd(spans, id)
    /\ IF CloneReturns(id)
       THEN handles' = [handles EXCEPT ![id] = @ + 1] /\ fatal' = FALSE
       ELSE handles' = handles /\ fatal' = TRUE
    /\ UNCHANGED <<current_spans, next_filter_id, CLOSE_COUNT, SPAN_TRACKER,
                   LIVE_SPANS, OPEN_SPANS, IN_SPANS, num_layers, calls, created,
                   enters, sync>>

\* Span::drop: the handle's reference goes to try_close of the whole
\* subscriber stack. A layer may do this from inside its on_close.
DropHandle(t, id) ==
    /\ ~fatal
    /\ Idle(t) \/ InCallback(t)
    /\ handles[id] > 0
    /\ handles' = [handles EXCEPT ![id] = @ - 1]
    /\ calls' = [calls EXCEPT ![t] = Append(@, Frame("try_close", id, "start"))]
    /\ UNCHANGED <<spans, current_spans, next_filter_id, CLOSE_COUNT, SPAN_TRACKER,
                   LIVE_SPANS, OPEN_SPANS, IN_SPANS, num_layers, fatal, created,
                   enters, sync>>

\* enter: push, and a new reference when the push made a new entry.
Enter(t, id) ==
    /\ ~fatal
    /\ Idle(t)
    /\ handles[id] > 0
    /\ Entered(current_spans[t]) < MaxEntered
    /\ LET new == PushIsNew(current_spans[t], id) IN
       /\ new => spans[id_to_idx(id)].ref_count < MaxRefs
       /\ current_spans' = [current_spans EXCEPT ![t] = Push(@, id)]
       /\ spans' = IF new THEN CloneAdd(spans, id) ELSE spans
       /\ IF new /\ ~CloneReturns(id)
          THEN fatal' = TRUE /\ IN_SPANS' = IN_SPANS
          ELSE fatal' = FALSE /\ IN_SPANS' = IN_SPANS + 1
    /\ UNCHANGED <<next_filter_id, CLOSE_COUNT, SPAN_TRACKER, LIVE_SPANS,
                   OPEN_SPANS, num_layers, calls, handles, created>>
    /\ enters' = [enters EXCEPT ![t] = Append(@, id)]
    /\ UNCHANGED sync

\* exit: pop, and when the entry is gone its reference goes to try_close of
\* the whole subscriber stack; IN_SPANS drops when that has returned.
Exit(t, id) ==
    /\ ~fatal
    /\ Idle(t)
    /\ id \in StackIds(current_spans[t])
    /\ current_spans' = [current_spans EXCEPT ![t] = Pop(@, id)]
    /\ IF PopRemoves(current_spans[t], id)
       THEN /\ calls' = [calls EXCEPT ![t] =
                    <<Frame("exit", id, "closing"), Frame("try_close", id, "start")>>]
            /\ IN_SPANS' = IN_SPANS
       ELSE /\ calls' = calls
            /\ IN_SPANS' = IN_SPANS - 1
    /\ UNCHANGED <<spans, next_filter_id, CLOSE_COUNT, SPAN_TRACKER, LIVE_SPANS,
                   OPEN_SPANS, num_layers, handles, fatal, created>>
    /\ enters' = [enters EXCEPT ![t] = RemoveLast(@, id)]
    /\ UNCHANGED sync

\* Layered::try_close, down to Registry::try_close's fetch_sub: every layer
\* takes a CloseGuard (start_close), the registry looks the span up and
\* decrements. On the last reference it also removes the SPAN_TRACKER entry
\* and returns true, and the innermost layer marks its guard closing and
\* runs on_close.
TryCloseStart(t) ==
    /\ ~fatal
    /\ ~Idle(t)
    /\ Top(t).op = "try_close" /\ Top(t).pc = "start"
    /\ LET f == Top(t)
           idx == id_to_idx(f.id)
       IN
       /\ CLOSE_COUNT' = [CLOSE_COUNT EXCEPT ![t] = @ + num_layers]
       /\ IF ~Get(f.id)
          THEN /\ fatal' = TRUE
               /\ UNCHANGED <<spans, SPAN_TRACKER, OPEN_SPANS, calls, sync>>
          ELSE LET refs == spans[idx].ref_count IN
               /\ fatal' = FALSE
               /\ spans' = [spans EXCEPT ![idx].ref_count = FetchSub(refs)]
               /\ IF OtherRefsRemain(refs)
                  THEN /\ calls' = [calls EXCEPT ![t] =
                               SetTop(t, [f EXCEPT !.pc = "track", !.refs = refs])]
                       /\ sync' = [sync EXCEPT ![idx].released = FetchSubRelease(t, idx)]
                       /\ UNCHANGED <<SPAN_TRACKER, OPEN_SPANS>>
                  ELSE /\ calls' = [calls EXCEPT ![t] =
                               SetTop(t, [f EXCEPT !.pc = "on_close", !.refs = refs,
                                                   !.layer = 1, !.is_closing = TRUE])]
                       /\ sync' = [sync EXCEPT ![idx] =
                               [written |-> {}, released |-> {},
                                seen |-> FenceAcquire(t, idx)]]
                       /\ SPAN_TRACKER' = SPAN_TRACKER \ {f.id}
                       /\ OPEN_SPANS' = OPEN_SPANS - 1
    /\ UNCHANGED <<current_spans, next_filter_id, LIVE_SPANS, IN_SPANS,
                   num_layers, handles, created,
                   enters>>

\* Registry::try_close with other references left: the SPAN_TRACKER entry is
\* unwrapped.
TryCloseTrack(t) ==
    /\ ~fatal
    /\ ~Idle(t)
    /\ Top(t).op = "try_close" /\ Top(t).pc = "track"
    /\ IF Top(t).id \in SPAN_TRACKER
       THEN /\ calls' = [calls EXCEPT ![t] = SetTop(t, [Top(t) EXCEPT !.pc = "ret"])]
            /\ fatal' = FALSE
       ELSE /\ calls' = calls
            /\ fatal' = TRUE
    /\ UNCHANGED <<spans, current_spans, next_filter_id, CLOSE_COUNT, SPAN_TRACKER,
                   LIVE_SPANS, OPEN_SPANS, IN_SPANS, num_layers, handles, created,
                   enters, sync>>

\* Registry::try_close returns false: its Ref is dropped, and when the slot
\* was marked meanwhile and this was the last Ref, the pool clears the slot
\* here. Then every layer drops its guard, none of them closing.
TryCloseRet(t) ==
    /\ ~fatal
    /\ ~Idle(t)
    /\ Top(t).op = "try_close" /\ Top(t).pc = "ret"
    /\ LET f == Top(t)
           idx == id_to_idx(f.id)
           deferred == spans[idx].life = "marked" /\ Readers(idx) = 1
           p == spans[idx].parent
       IN
       IF deferred /\ p /= NoId
       THEN /\ spans' = [spans EXCEPT ![idx].life = "clearing", ![idx].parent = NoId]
            /\ calls' = [calls EXCEPT ![t] =
                    SetTop(t, [f EXCEPT !.pc = "unguard"])
                    \o <<Frame("clear", f.id, "finish"), Frame("try_close", p, "start")>>]
            /\ UNCHANGED <<CLOSE_COUNT, IN_SPANS>>
       ELSE /\ spans' = IF deferred THEN ClearData(spans, idx) ELSE spans
            /\ CLOSE_COUNT' = [CLOSE_COUNT EXCEPT ![t] = @ - num_layers]
            /\ calls' = [calls EXCEPT ![t] = PopRet(@)]
            /\ IN_SPANS' = IN_SPANS - (NumExit(calls[t]) - NumExit(calls'[t]))
    /\ created' = Forget(spans')
    /\ UNCHANGED <<current_spans, next_filter_id, SPAN_TRACKER, LIVE_SPANS,
                   OPEN_SPANS, num_layers, handles, fatal,
                   enters, sync>>

\* A layer's on_close returns and its CloseGuard is dropped: CLOSE_COUNT is
\* decremented first, then the guard that saw 1 and is closing clears the
\* slot in the pool (DataInner::clear: the parent, when there is one, is
\* taken and closed through the whole subscriber stack).
OnCloseReturn(t) ==
    /\ ~fatal
    /\ InCallback(t)
    /\ LET f == Top(t)
           idx == id_to_idx(f.id)
           c == CLOSE_COUNT[t]
           p == spans[idx].parent
       IN
       /\ CLOSE_COUNT' = [CLOSE_COUNT EXCEPT ![t] = GuardDropped(c)]
       /\ IF ~ShouldReclaim(c, f.is_closing)
          THEN /\ calls' = [calls EXCEPT ![t] = ReturnTrue(@)]
               /\ UNCHANGED <<spans, LIVE_SPANS>>
          ELSE IF spans[idx].life = "present" /\ Readers(idx) = 0 /\ p /= NoId
          THEN /\ spans' = [spans EXCEPT ![idx].life = "clearing", ![idx].parent = NoId]
               /\ calls' = [calls EXCEPT ![t] =
                       SetTop(t, [f EXCEPT !.pc = "after_clear"])
                       \o <<Frame("clear", f.id, "finish"), Frame("try_close", p, "start")>>]
               /\ UNCHANGED LIVE_SPANS
          ELSE /\ spans' =
                    IF spans[idx].life /= "present" THEN spans
                    ELSE IF Readers(idx) > 0 THEN [spans EXCEPT ![idx].life = "marked"]
                    ELSE ClearData(spans, idx)
               /\ LIVE_SPANS' = LIVE_SPANS - 1
               /\ calls' = [calls EXCEPT ![t] = ReturnTrue(@)]
       /\ IN_SPANS' = IN_SPANS - (NumExit(calls[t]) - NumExit(calls'[t]))
    /\ created' = Forget(spans')
    /\ UNCHANGED <<current_spans, next_filter_id, SPAN_TRACKER, OPEN_SPANS,
                   num_layers, handles, fatal,
                   enters, sync>>

\* DataInner::clear after the parent's try_close has returned: the extensions
\* are cleared, the filter map reset, and the pool has the slot back. The call
\* that cleared the slot goes on: a guard's drop counts LIVE_SPANS down and
\* its layer returns true; a try_close that returned false drops its guards.
ClearFinish(t) ==
    /\ ~fatal
    /\ ~Idle(t)
    /\ Top(t).op = "clear"
    /\ LET idx == id_to_idx(Top(t).id)
           below == Front(calls[t])
           g == below[Len(below)]
       IN
       /\ spans' = ClearData(spans, idx)
       /\ IF g.pc = "after_clear"
          THEN /\ LIVE_SPANS' = LIVE_SPANS - 1
               /\ calls' = [calls EXCEPT ![t] = ReturnTrue(below)]
               /\ UNCHANGED CLOSE_COUNT
          ELSE /\ LIVE_SPANS' = LIVE_SPANS
               /\ calls' = [calls EXCEPT ![t] = PopRet(below)]
               /\ CLOSE_COUNT' = [CLOSE_COUNT EXCEPT ![t] = @ - num_layers]
       /\ IN_SPANS' = IN_SPANS - (NumExit(calls[t]) - NumExit(calls'[t]))
    /\ created' = Forget(spans')
    /\ UNCHANGED <<current_spans, next_filter_id, SPAN_TRACKER, OPEN_SPANS,
                   num_layers, handles, fatal,
                   enters, sync>>

\* try_close on an id the caller holds no reference of and that has no slot
\* in the pool (a caller bug, or cleanup while the thread unwinds from a
\* panic). The layers take and drop their guards around it. A panicking
\* thread unwraps the SPAN_TRACKER entry and returns false; any other thread
\* panics, and a panic while panicking ends the process as well.
StaleTryClose(t, id, panicking) ==
    /\ ~fatal
    /\ Idle(t)
    /\ handles[id] = 0
    /\ ~Get(id)
    /\ fatal' = ~(panicking /\ id \in SPAN_TRACKER)
    /\ UNCHANGED <<spans, current_spans, next_filter_id, CLOSE_COUNT, SPAN_TRACKER,
                   LIVE_SPANS, OPEN_SPANS, IN_SPANS, num_layers, calls, handles,
                   created, enters, sync>>

\* clone_span on an id the caller holds no handle of (a layer may call it
\* with any id it sees, in or out of a callback): the lookup is unwrapped,
\* the count goes up, and then the count before and the SPAN_TRACKER entry
\* are checked.
CloneSpanAny(t, id) ==
    /\ ~fatal
    /\ Idle(t) \/ InCallback(t)
    /\ handles[id] = 0
    /\ spans[id_to_idx(id)].ref_count < MaxRefs
    /\ spans' = IF Get(id) THEN CloneAdd(spans, id) ELSE spans
    /\ IF CloneReturns(id)
       THEN handles' = [handles EXCEPT ![id] = @ + 1] /\ fatal' = FALSE
       ELSE handles' = handles /\ fatal' = TRUE
    /\ UNCHANGED <<current_spans, next_filter_id, CLOSE_COUNT, SPAN_TRACKER,
                   LIVE_SPANS, OPEN_SPANS, IN_SPANS, num_layers, calls, created,
                   enters, sync>>

\* Data::extensions_mut by a thread that holds a reference to the span, before
\* the thread gives the reference to try_close.
WriteSlot(t) ==
    /\ ~fatal
    /\ ~Idle(t)
    /\ Top(t).op = "try_close" /\ Top(t).pc = "start"
    /\ Get(Top(t).id)
    /\ t \notin sync[id_to_idx(Top(t).id)].written
    /\ sync' = [sync EXCEPT ![id_to_idx(Top(t).id)].written = @ \cup {t}]
    /\ UNCHANGED <<spans, current_spans, next_filter_id, CLOSE_COUNT, SPAN_TRACKER,
                   LIVE_SPANS, OPEN_SPANS, IN_SPANS, num_layers, calls, handles,
                   fatal, created, enters>>

ParentKinds == {"root", "contextual", "explicit"}

FilterMaps == {FilterMapDefault, 1}

\* What thread t may do next; `pool` are the slots new_span may check out,
\* and metas, fms and exts what the spans are created with.
Step(t, pool, metas, fms, exts) ==
    \/ \E md \in metas, fm \in fms, ext \in exts, kind \in ParentKinds, pid \in Ids :
          NewSpan(t, pool, md, fm, ext, kind, pid)
    \/ \E id \in Ids :
          \/ CloneHandle(t, id)
          \/ DropHandle(t, id)
          \/ Enter(t, id)
          \/ Exit(t, id)
    \/ TryCloseStart(t)
    \/ TryCloseTrack(t)
    \/ TryCloseRet(t)
    \/ OnCloseReturn(t)
    \/ ClearFinish(t)

\* One thread, the whole pool, spans of one kind.
Next == Step(1, Idx, {"m1"}, {FilterMapDefault}, {ExtTypes})

Spec == Init /\ [][Next]_vars

\* One thread, a pool of DataSlots slots, spans of every kind.
NextData ==
    \/ RegisterFilter
    \/ Step(1, 0..(DataSlots - 1), Metas, FilterMaps, SUBSET ExtTypes)

SpecData == Init /\ [][NextData]_vars

\* Every thread, a pool of ConcSlots slots, spans of one kind.
NextConc ==
    \E t \in Threads : Step(t, 0..(ConcSlots - 1), {"m1"}, {FilterMapDefault}, {ExtTypes})

SpecConc == Init /\ [][NextConc]_vars

\* Every thread, a pool of OrderSlots slots, root spans that are not
\* entered; the threads write to the spans they hold before they release them.
NextOrder ==
    \E t \in Threads :
        \/ NewSpan(t, 0..(OrderSlots - 1), "m1", FilterMapDefault, ExtTypes, "root", 1)
        \/ \E id \in Ids : CloneHandle(t, id) \/ DropHandle(t, id)
        \/ WriteSlot(t)
        \/ TryCloseStart(t)
        \/ TryCloseTrack(t)
        \/ TryCloseRet(t)
        \/ OnCloseReturn(t)

SpecOrder == Init /\ [][NextOrder]_vars

\* One thread, a pool of DataSlots slots, spans of one kind, and callers that
\* pass ids they hold no reference of.
NextMisuse ==
    \/ Step(1, 0..(DataSlots - 1), {"m1"}, {FilterMapDefault}, {ExtTypes})
    \/ \E id \in 1..DataSlots :
          \/ \E panicking \in BOOLEAN : StaleTryClose(1, id, panicking)
          \/ CloneSpanAny(1, id)

SpecMisuse == Init /\ [][NextMisuse]_vars

\* Filters are registered while the registry is assembled, before any span.
NextFilters == RegisterFilterUpTo(U8Modulus)

SpecFilters == Init /\ [][NextFilters]_vars

\* ---------------------------------------------------------------- claims
Quiescent == ~fatal /\ \A t \in Threads : Idle(t)

CheckedOut(idx) == spans[idx].life /= "free"

\* The span in the slot has closed (its last reference is gone) and the pool
\* does not have the slot back.
Closed(idx) == CheckedOut(idx) /\ spans[idx].ref_count = 0

\* The slots whose span has the span `p` as its parent.
Kids(p) == {i \in Idx : CheckedOut(i) /\ spans[i].parent = p}

\* The entries of `p` on the threads' span stacks.
Entries(p) ==
    Cardinality(UNION {{<<t, i>> : i \in {j \in DOMAIN current_spans[t] :
                                              current_spans[t][j].id = p}} : t \in Threads})

\* The references to `p` handed to a try_close that has not decremented yet.
Pending(p) ==
    LET Starts(f) == f.op = "try_close" /\ f.id = p /\ f.pc = "start"
    IN Cardinality(FramesWhere(Starts))

\* The frames that name `p`.
FramesOf(p) ==
    LET Names(f) == f.id = p
    IN FramesWhere(Names)

\* C1: while any layer's on_close for a span is running (the close has not yet
\* dropped its outermost guard), span_data finds the span, and what it finds is
\* that span's entry: the one new_span made, its count at 0.
C1_CloseSeesSpan ==
    \A t \in Threads : \A i \in DOMAIN calls[t] :
        LET f == calls[t][i]
            idx == id_to_idx(f.id)
        IN (f.op = "try_close" /\ f.pc = "on_close") =>
               /\ span_data(f.id) /= {}
               /\ \A d \in span_data(f.id) :
                     /\ d.id = f.id
                     /\ d.metadata = created[idx].metadata
               /\ spans[idx].ref_count = 0

\* The outer of two layers is in its on_close, after the inner one returned.
C1_Witness ==
    \E t \in Threads :
        /\ InCallback(t)
        /\ num_layers = 2 /\ Top(t).layer = 2
        /\ span_data(Top(t).id) /= {}

\* C2: a try_close on a span whose count is r >= 1 takes exactly one off the
\* count; it closes the span (and goes on to on_close, to return true) exactly
\* when the count it saw was 1; when it saw more, the span stays live, the
\* call returns false and reclaims nothing.
C2_TryCloseDecrements ==
    [][\A t \in Threads :
          /\ (TryCloseStart(t) /\ Get(Top(t).id)) =>
                 LET idx == id_to_idx(Top(t).id)
                     prior == spans[idx].ref_count
                     after == calls'[t][Len(calls'[t])]
                 IN /\ spans'[idx].ref_count = prior - 1
                    /\ (after.pc = "on_close") <=> (prior = 1)
                    /\ (prior > 1) =>
                           /\ spans'[idx].life = "present"
                           /\ spans'[idx].ref_count >= 1
                           /\ LIVE_SPANS' = LIVE_SPANS /\ OPEN_SPANS' = OPEN_SPANS
          /\ TryCloseTrack(t) => ~fatal'
          /\ TryCloseRet(t) => LIVE_SPANS' = LIVE_SPANS /\ OPEN_SPANS' = OPEN_SPANS
      ]_vars

\* C3: a span that has closed has its slot reclaimed once the closes in
\* progress have finished: when no call is running, no closed span is left.
C3_ClosedIsReclaimed ==
    Quiescent => \A idx \in Idx : ~Closed(idx)

\* C4: a closed span's slot is reclaimed by the drop of the outermost guard of
\* its close and by no other: the guard of the last layer clears the slot,
\* the guards of the layers before it leave it alone.
C4_OutermostGuardReclaims ==
    [][\A t \in Threads :
          OnCloseReturn(t) =>
              LET f == Top(t)
                  idx == id_to_idx(f.id)
              IN IF f.layer = num_layers
                 THEN spans'[idx].life /= "present" /\ spans[idx].life = "present"
                 ELSE spans'[idx] = spans[idx] /\ LIVE_SPANS' = LIVE_SPANS
      ]_vars

HasLiveChild(p) == Kids(p) /= {}

\* C5: a span with a live child is neither closed nor reclaimed, with or
\* without user handles: its slot is present, its count is at least 1 and its
\* tracker entry is there, and a try_close on it that has not decremented yet
\* will see other references and return false.
C5_ParentOutlivesHandles ==
    \A p \in Ids :
        HasLiveChild(p) =>
            /\ Get(p)
            /\ spans[id_to_idx(p)].ref_count >= 1
            /\ p \in SPAN_TRACKER
            /\ Pending(p) > 0 => OtherRefsRemain(spans[id_to_idx(p)].ref_count)
            /\ \A k \in Kids(p) : spans[k].ref_count >= 1 => spans[k].life = "present"

\* The parent's last user handle was dropped, its try_close has returned, and
\* parent and child are both open.
C5_Witness ==
    \E p \in Ids : \E k \in Kids(p) :
        /\ Quiescent
        /\ handles[p] = 0 /\ Entries(p) = 0
        /\ Get(p) /\ spans[id_to_idx(p)].ref_count = 1
        /\ Get(idx_to_id(k)) /\ handles[idx_to_id(k)] > 0

\* C6: closes go up a chain of ancestors that only their descendants keep
\* alive, child first: a span never closes before its children have, and when
\* no call is running, a span without a handle and without a stack entry is
\* open only while one of its children is.
C6_CascadeUp ==
    \A idx \in Idx :
        LET id == idx_to_id(idx) IN
        /\ Closed(idx) => \A k \in Kids(id) : spans[k].ref_count = 0
        /\ (Quiescent /\ CheckedOut(idx) /\ spans[idx].ref_count >= 1
                /\ handles[id] = 0 /\ Entries(id) = 0)
              => \E k \in Kids(id) : spans[k].ref_count >= 1

\* C7: a span's count is made of its user handles (new_span's one and
\* clone_span's), its entries on span stacks, one reference per child that has
\* it as parent (held until the child's slot is cleared), and the references
\* on their way into try_close; so the count is at least the number of live
\* children, and a root span is in no other span's count.
C7_ParentRefAccounting ==
    \A p \in Ids :
        LET refs == spans[id_to_idx(p)].ref_count IN
        /\ refs = handles[p] + Entries(p) + Cardinality(Kids(p)) + Pending(p)
        /\ refs >= Cardinality(Kids(p))

\* Two children created with the same parent, each holding one reference on
\* it, while the parent's own handle is gone.
C7_Witness ==
    \E p \in Ids :
        /\ Cardinality(Kids(p)) = 2
        /\ handles[p] = 0 /\ Entries(p) = 0
        /\ spans[id_to_idx(p)].ref_count = 2

\* C8: IDs are not zero and differ between slots, and the ID of a slot the
\* pool can hand to new_span is in use nowhere: no handle, no stack entry, no
\* child and no call in progress names it; a slot whose span has closed but
\* whose close callbacks are running is not such a slot.
C8_IdsUnique ==
    /\ \A i \in Idx :
          /\ idx_to_id(i) /= NoId
          /\ id_to_idx(idx_to_id(i)) = i
          /\ \A j \in Idx : i /= j => idx_to_id(i) /= idx_to_id(j)
    /\ \A i \in Idx :
          spans[i].life = "free" =>
              /\ handles[idx_to_id(i)] = 0
              /\ Entries(idx_to_id(i)) = 0
              /\ Kids(idx_to_id(i)) = {}
              /\ FramesOf(idx_to_id(i)) = {}
    /\ \A t \in Threads : \A n \in DOMAIN calls[t] :
          calls[t][n].op = "try_close" /\ calls[t][n].pc = "on_close"
              => spans[id_to_idx(calls[t][n].id)].life /= "free"

\* A thread is in the close callbacks of a span whose count is 0 while a span
\* in another slot is open and has a handle.
C8_Witness ==
    \E t \in Threads : \E i \in Idx :
        /\ InCallback(t)
        /\ spans[id_to_idx(Top(t).id)].ref_count = 0
        /\ i /= id_to_idx(Top(t).id)
        /\ spans[i].life = "present" /\ handles[idx_to_id(i)] > 0

\* C9: a lookup with the ID of a slot that has been cleared finds nothing
\* until new_span checks the slot out again, and then it finds the new span's
\* data and nothing of the old span: the slot the pool has back holds no
\* parent, no extensions and the default filter map, and a present slot holds
\* exactly what its new_span put there.
C9_ClearedThenFresh ==
    \A idx \in Idx :
        LET id == idx_to_id(idx)
            d == spans[idx]
        IN /\ d.life /= "present" => span_data(id) = {}
           /\ d.life = "free" =>
                 /\ d.parent = NoId
                 /\ d.extensions = {}
                 /\ d.filter_map = FilterMapDefault
           /\ d.life = "present" =>
                 span_data(id) =
                     {[id |-> id, metadata |-> created[idx].metadata,
                       parent |-> created[idx].parent,
                       extensions |-> created[idx].extensions,
                       filter_map |-> created[idx].filter_map]}

\* A slot that held a span has been cleared (the metadata is still in it) and
\* a lookup with its ID finds nothing, while a span without extensions lives
\* in the other slot.
C9_Witness ==
    \E idx \in Idx : \E other \in Idx :
        /\ spans[idx].life = "free"
        /\ spans[idx].metadata = "m2"
        /\ span_data(idx_to_id(idx)) = {}
        /\ spans[other].life = "present"
        /\ spans[other].metadata = "m1"
        /\ spans[other].extensions = {}
        /\ spans[other].filter_map = FilterMapDefault

\* C10: clone_span on a live span puts its count up by one and changes
\* nothing else; the try_close that follows sees that count, which is over 1,
\* so it takes the one reference back, returns false and closes nothing: the
\* count and the slot are as they were before the clone.
C10_CloneThenCloseIsNoOp ==
    [][\A t \in Threads :
          /\ \A id \in Ids :
                (CloneHandle(t, id) /\ Get(id) /\ spans[id_to_idx(id)].ref_count >= 1) =>
                    LET idx == id_to_idx(id)
                        prior == spans'[idx].ref_count
                    IN /\ spans' = [spans EXCEPT ![idx].ref_count = @ + 1]
                       /\ OtherRefsRemain(prior)
                       /\ [spans' EXCEPT ![idx].ref_count = FetchSub(prior)] = spans
                       /\ id \in SPAN_TRACKER'
          /\ (TryCloseStart(t) /\ spans[id_to_idx(Top(t).id)].ref_count >= 2) =>
                 LET idx == id_to_idx(Top(t).id) IN
                 /\ spans' = [spans EXCEPT ![idx].ref_count = @ - 1]
                 /\ calls'[t][Len(calls'[t])].pc = "track"
                 /\ SPAN_TRACKER' = SPAN_TRACKER
          /\ TryCloseTrack(t) => ~fatal' /\ spans' = spans
          /\ TryCloseRet(t) => spans' = spans /\ LIVE_SPANS' = LIVE_SPANS
      ]_vars

\* The try_close that followed a clone_span has returned false: the count it
\* saw was 2, and the one handle left accounts for the count of 1.
C10_Witness ==
    \E t \in Threads :
        /\ ~Idle(t)
        /\ Top(t).op = "try_close" /\ Top(t).pc = "ret" /\ Top(t).refs = 2
        /\ handles[Top(t).id] = 1
        /\ Entries(Top(t).id) = 0 /\ Kids(Top(t).id) = {}
        /\ spans[id_to_idx(Top(t).id)].ref_count = 1
        /\ spans[id_to_idx(Top(t).id)].life = "present"

\* C11: enter(id) directly followed by exit(id) on the same thread undoes
\* itself, wherever id is on the stack: the pop takes back what the push put
\* there, exit hands a reference to try_close exactly when enter took one,
\* and that try_close sees a count over 1, takes the one reference off and
\* returns false, so the stack and the count are as before and no span closes.
C11_EnterExitIsNoOp ==
    [][\A t \in Threads :
          /\ \A id \in Ids :
                /\ (Enter(t, id) /\ ~fatal') =>
                       LET stk == current_spans[t]
                           pushed == current_spans'[t]
                           idx == id_to_idx(id)
                           new == PushIsNew(stk, id)
                       IN /\ Pop(pushed, id) = stk
                          /\ PopRemoves(pushed, id) <=> new
                          /\ IF new
                             THEN /\ spans' = [spans EXCEPT ![idx].ref_count = @ + 1]
                                  /\ OtherRefsRemain(spans'[idx].ref_count)
                                  /\ FetchSub(spans'[idx].ref_count) = spans[idx].ref_count
                             ELSE spans' = spans
                /\ Exit(t, id) =>
                       /\ current_spans'[t] = Pop(current_spans[t], id)
                       /\ spans' = spans
                       /\ (calls'[t] /= <<>>) <=> PopRemoves(current_spans[t], id)
          /\ (TryCloseStart(t) /\ spans[id_to_idx(Top(t).id)].ref_count >= 2) =>
                 /\ spans' = [spans EXCEPT ![id_to_idx(Top(t).id)].ref_count = @ - 1]
                 /\ calls'[t][Len(calls'[t])].pc = "track"
                 /\ current_spans' = current_spans
          /\ TryCloseTrack(t) => ~fatal' /\ spans' = spans /\ current_spans' = current_spans
          /\ TryCloseRet(t) => spans' = spans /\ current_spans' = current_spans
      ]_vars

\* A span that was below the top of the stack was entered again and exited:
\* the try_close of the exit saw 3 (the handle and two entries) and returned
\* false, and the span is below the top as before, its count 2.
C11_Witness ==
    \E t \in Threads :
        /\ Len(calls[t]) = 2
        /\ calls[t][1].op = "exit"
        /\ Top(t).op = "try_close" /\ Top(t).pc = "ret" /\ Top(t).refs = 3
        /\ handles[Top(t).id] = 1 /\ Kids(Top(t).id) = {}
        /\ Len(current_spans[t]) = 2
        /\ current_spans[t][1].id = Top(t).id
        /\ current_spans[t][2].id /= Top(t).id
        /\ spans[id_to_idx(Top(t).id)].ref_count = 2

\* The entries of a stack that are not entries of `id`, in their order.
OtherEntries(stk, id) ==
    LET NotId(e) == e.id /= id
    IN SelectSeq(stk, NotId)

\* A span that is entered or that has a handle is live: its slot is present
\* and its count covers its handles and its entries.
EnteredOrHeldIsLive ==
    \A id \in Ids :
        (Entries(id) > 0 \/ handles[id] > 0) =>
            /\ Get(id)
            /\ spans[id_to_idx(id)].ref_count >= Entries(id) + handles[id]

\* The call a thread makes from its own code: no close callback is under it.
TopLevelCall(t) ==
    \/ Len(calls[t]) = 1
    \/ Len(calls[t]) = 2 /\ calls[t][1].op = "exit"

LatestEntered(t) ==
    IF enters[t] = <<>> THEN {}
    ELSE LET id == enters[t][Len(enters[t])]
         IN {[id |-> id, metadata |-> created[id_to_idx(id)].metadata]}

\* C13: on every thread, after any enters and exits (of the same span again,
\* in any order), current_span() is the span entered latest and not exited
\* yet, with its metadata, and none when there is no such span; the enters and
\* exits of one thread leave current_span() of the others alone.
C13_CurrentIsLatestEntered ==
    [][/\ \A t \in Threads : current_span_data(t)' = LatestEntered(t)'
       /\ \A t \in Threads : \A u \in Threads \ {t} : \A id \in Ids :
             (Enter(u, id) \/ Exit(u, id)) =>
                 current_span_data(t)' = current_span_data(t)
      ]_vars

\* A thread entered a span, another span, and the first again, while the
\* other thread is in a span of its own.
C13_Witness ==
    \E t \in Threads : \E u \in Threads \ {t} :
        /\ Len(enters[t]) = 3
        /\ enters[t][1] = enters[t][3] /\ enters[t][1] /= enters[t][2]
        /\ current_span_data(t) /= {}
        /\ enters[u] /= <<>>
        /\ current_span_data(u) /= current_span_data(t)

\* The statement of C14 as the specification has it: every entry whose slot is
\* checked out of the pool has a count of at least 1.
C14_LiveHasRefs ==
    \A idx \in Idx : CheckedOut(idx) => spans[idx].ref_count >= 1

\* C14, as the code has it: an entry whose slot is checked out has a count of
\* at least 1 until its last reference is released. From then on (while
\* the close callbacks run, until the slot is cleared) it is checked out with
\* a count of 0: it is out of SPAN_TRACKER, and no handle, no stack entry and
\* no child refers to it.
C14_LiveHasRefsUntilClosed ==
    \A idx \in Idx :
        LET id == idx_to_id(idx) IN
        CheckedOut(idx) =>
            /\ spans[idx].ref_count >= 0
            /\ spans[idx].ref_count >= 1 <=> id \in SPAN_TRACKER
            /\ spans[idx].ref_count >= 1 => spans[idx].life = "present"
            /\ spans[idx].ref_count = 0 =>
                   handles[id] = 0 /\ Entries(id) = 0 /\ Kids(id) = {}

\* A slot is checked out with a count of 0 while a close callback of its span
\* runs, and another slot is checked out with a count of 1 or more.
C14_Witness ==
    \E t \in Threads : \E other \in Idx :
        /\ InCallback(t)
        /\ CheckedOut(id_to_idx(Top(t).id))
        /\ spans[id_to_idx(Top(t).id)].ref_count = 0
        /\ CheckedOut(other) /\ spans[other].ref_count >= 1

\* The statement of C15 as the specification has it: whenever the count of an
\* entry is 0, span_data with its ID finds nothing.
C15_ZeroRefsNoLookup ==
    \A idx \in Idx :
        spans[idx].ref_count = 0 => span_data(idx_to_id(idx)) = {}

\* C15, as the code has it: once a slot has been cleared, span_data with its
\* ID finds nothing; a span whose count is 0 and whose slot has not been
\* cleared is still found (its close callbacks look it up), but it is closed
\* for good: clone_span on it does not return, it is out of SPAN_TRACKER, and
\* no handle, no stack entry and no child refers to it.
C15_ZeroRefsFoundUntilCleared ==
    \A idx \in Idx :
        LET id == idx_to_id(idx) IN
        spans[idx].ref_count = 0 =>
            /\ span_data(id) /= {} <=> spans[idx].life = "present"
            /\ spans[idx].life = "free" => span_data(id) = {}
            /\ ~CloneReturns(id)
            /\ id \notin SPAN_TRACKER
            /\ handles[id] = 0 /\ Entries(id) = 0 /\ Kids(id) = {}
            /\ \A t \in Threads : current_span_data(t) = {} \/
                   \A d \in current_span_data(t) : d.id /= id

\* The second of two layers is in on_close for a span whose count is 0, and
\* span_data finds the span.
C15_Witness ==
    \E t \in Threads :
        /\ InCallback(t)
        /\ Top(t).layer = 2
        /\ spans[id_to_idx(Top(t).id)].ref_count = 0
        /\ span_data(Top(t).id) /= {}
        /\ \E i \in Idx : spans[i].life = "free" /\ spans[i].metadata /= NullMetadata

\* C16: try_close on an ID that has no slot in the pool is swallowed when the
\* calling thread is panicking (it returns false, no second panic, no count
\* changed) and panics when the thread is not panicking.
C16_StaleTryClose ==
    [][\A t \in Threads : \A id \in Ids :
          /\ StaleTryClose(t, id, TRUE) => ~fatal' /\ spans' = spans
          /\ StaleTryClose(t, id, FALSE) => fatal' /\ spans' = spans
      ]_vars

\* C17: clone_span panics when the ID has no slot and when the count before
\* its increment was 0, so it never returns for a span that has closed; for a
\* live span (count 1 or more) it adds exactly one to the count, changes
\* nothing else in the pool and returns the ID, one more handle of that span.
C17_CloneSpanPanicsOrAddsOne ==
    [][\A t \in Threads : \A id \in Ids :
          (CloneSpanAny(t, id) \/ CloneHandle(t, id)) =>
              IF Get(id) /\ spans[id_to_idx(id)].ref_count >= 1
              THEN /\ ~fatal'
                   /\ spans' = [spans EXCEPT ![id_to_idx(id)].ref_count = @ + 1]
                   /\ handles' = [handles EXCEPT ![id] = @ + 1]
              ELSE /\ fatal'
                   /\ handles' = handles
      ]_vars

\* A layer called clone_span in on_close on the span that is closing: the
\* call panicked after its increment, which left a count of 1 on a span that
\* is out of SPAN_TRACKER.
C17_Witness ==
    \E t \in Threads :
        /\ fatal
        /\ InCallback(t)
        /\ Get(Top(t).id)
        /\ spans[id_to_idx(Top(t).id)].ref_count = 1
        /\ Top(t).id \notin SPAN_TRACKER
        /\ handles[Top(t).id] = 0

\* C18: register_filter hands out the ordinals 0, 1, 2, ... one per call,
\* each one more than the one before (so no two are the same), and
\* has_per_layer_filters is false before the first registration and true
\* after every registration.
C18_FilterOrdinals ==
    [][/\ next_filter_id = 0 /\ ~fatal => ~has_per_layer_filters
       /\ RegisterFilterUpTo(U8Modulus) =>
             /\ ~fatal'
             /\ next_filter_id' = next_filter_id + 1
             /\ has_per_layer_filters'
      ]_vars

\* The depths the guards of a try_close that returned false see when they are
\* dropped, the innermost layer's guard first.
DepthsAtDrop(t) == {CLOSE_COUNT[t] - k : k \in 0..(num_layers - 1)}

\* C19: the drop of a Close Guard takes one off the close depth of its
\* thread, and it reclaims the slot of its span exactly when the depth it saw
\* was 1 and the guard was set closing. A closing guard that is not the
\* outermost frame, and the guards of a try_close that returned false (never
\* set closing, the outermost one included), reclaim nothing and change no
\* span.
C19_GuardDrop ==
    [][\A t \in Threads :
          /\ OnCloseReturn(t) =>
                 LET f == Top(t)
                     idx == id_to_idx(f.id)
                     c == CLOSE_COUNT[t]
                 IN /\ CLOSE_COUNT'[t] = c - 1
                    /\ f.is_closing
                    /\ (spans'[idx].life /= "present") <=> (c = 1 /\ f.is_closing)
                    /\ ShouldReclaim(c, f.is_closing) <=> (c = 1 /\ f.is_closing)
                    /\ ~(c = 1 /\ f.is_closing) =>
                           /\ spans' = spans
                           /\ LIVE_SPANS' = LIVE_SPANS
          /\ TryCloseRet(t) =>
                 /\ CLOSE_COUNT'[t] = CLOSE_COUNT[t] - num_layers
                 /\ ~Top(t).is_closing
                 /\ \A c \in DepthsAtDrop(t) : ~ShouldReclaim(c, Top(t).is_closing)
                 /\ spans' = spans
                 /\ LIVE_SPANS' = LIVE_SPANS
      ]_vars

\* The guard of a close that began inside another span's on_close has been
\* dropped at depth 2 and reclaimed nothing: the span it closed is checked out
\* with a count of 0 while the outer close goes on.
C19_Witness ==
    \E t \in Threads : \E idx \in Idx :
        /\ Len(calls[t]) = 1 /\ InCallback(t)
        /\ num_layers = 1
        /\ CLOSE_COUNT[t] = 1
        /\ idx /= id_to_idx(Top(t).id)
        /\ spans[idx].life = "present" /\ spans[idx].ref_count = 0

\* C20: the guard takes the close depth down before it clears the slot, so
\* the try_close of the parent that DataInner::clear makes starts at depth 0
\* on that thread and is an outermost frame of its own: when the
\* parent's last reference went with the child, the last guard of that
\* try_close sees depth 1 and reclaims the parent, and when the thread's calls
\* are over its close depth is 0.
C20_NestedParentClose ==
    [][\A t \in Threads :
          /\ (TryCloseStart(t) /\ Len(calls[t]) >= 2
                  /\ calls[t][Len(calls[t]) - 1].op = "clear") =>
                 CLOSE_COUNT[t] = 0
          /\ (OnCloseReturn(t) /\ Len(calls[t]) >= 2
                  /\ calls[t][Len(calls[t]) - 1].op = "clear"
                  /\ Top(t).layer = num_layers) =>
                 /\ CLOSE_COUNT[t] = 1
                 /\ spans'[id_to_idx(Top(t).id)].life /= "present"
          /\ calls'[t] = <<>> => CLOSE_COUNT'[t] = 0
      ]_vars

\* The threads other than t that are inside a try_close of the span `p`.
OtherClosers(t, p) ==
    {u \in Threads \ {t} :
        \E i \in DOMAIN calls[u] : calls[u][i].op = "try_close" /\ calls[u][i].id = p}

\* C21: when several threads release their references to one span through
\* try_close at the same time, the call that sees a count of 1 is the only one
\* that closes the span (and returns true), every call that sees more returns
\* false, and the slot is given up once, when no handle and no reference on
\* its way to a decrement is left.
C21_ConcurrentRelease ==
    [][\A t \in Threads :
          /\ (TryCloseStart(t) /\ Get(Top(t).id) /\ OtherClosers(t, Top(t).id) /= {}) =>
                 LET prior == spans[id_to_idx(Top(t).id)].ref_count
                     after == calls'[t][Len(calls'[t])]
                 IN /\ (after.pc = "on_close") <=> (prior = 1)
                    /\ (after.pc = "track") <=> (prior > 1)
          /\ (TryCloseTrack(t) /\ OtherClosers(t, Top(t).id) /= {}) =>
                 /\ ~fatal'
                 /\ calls'[t][Len(calls'[t])].pc = "ret"
          /\ \A i \in Idx :
                 (spans[i].life = "present" /\ spans'[i].life /= "present") =>
                     /\ spans[i].ref_count = 0
                     /\ handles[idx_to_id(i)] = 0
                     /\ Pending(idx_to_id(i)) = 0
      ]_vars

\* C22: the decrement that takes a span's count from 1 to 0 is the last
\* decrement on the span, no reference to it is on its way to a decrement
\* when the slot is cleared, and after its acquire fence the thread that made
\* it has every write to the slot that a thread made before that thread's
\* own release decrement.
C22_CloseOrdering ==
    [][\A t \in Threads :
          /\ (TryCloseStart(t) /\ Get(Top(t).id)) =>
                 LET id == Top(t).id
                     idx == id_to_idx(id)
                     prior == spans[idx].ref_count
                 IN /\ prior >= 1
                    /\ (prior = 1) =>
                           /\ handles[id] = 0
                           /\ Pending(id) = 1
                           /\ sync[idx].written \subseteq sync'[idx].seen
          /\ \A i \in Idx :
                 (spans[i].life = "present" /\ spans'[i].life /= "present") =>
                     /\ Pending(idx_to_id(i)) = 0
                     /\ spans[i].ref_count = 0
      ]_vars

\* A thread is in on_close of a span after the decrement that saw 1, another
\* thread wrote to the span and has released its reference but has not
\* returned from its try_close yet, and the closing thread has that write
\* and its own.
C22_Witness ==
    \E t \in Threads : \E u \in Threads \ {t} :
        /\ InCallback(t)
        /\ sync[id_to_idx(Top(t).id)].seen = {t, u}
        /\ ~Idle(u)
        /\ Top(u).op = "try_close" /\ Top(u).id = Top(t).id /\ Top(u).pc = "ret"

\* C23: every id on a span stack is the id of a live span, and every entry
\* holds one reference: enter adds one exactly when push made a new entry,
\* exit hands one to try_close exactly when pop took the entry out. So a span
\* with an entry on some stack is not reclaimed, handles or not, and the
\* try_close of the exit that took its last reference closes it.
C23_StackHoldsReferences ==
    [][/\ \A id \in Ids :
             Entries(id) > 0 =>
                 /\ Get(id)
                 /\ spans[id_to_idx(id)].ref_count >= Entries(id)
       /\ \A i \in Idx :
             (spans[i].life = "present" /\ spans'[i].life /= "present") =>
                 Entries(idx_to_id(i)) = 0
       /\ \A t \in Threads :
             /\ \A id \in Ids :
                   /\ Enter(t, id) =>
                          /\ spans'[id_to_idx(id)].ref_count =
                                spans[id_to_idx(id)].ref_count
                                    + (IF PushIsNew(current_spans[t], id) THEN 1 ELSE 0)
                          /\ Entries(id)' =
                                Entries(id) + (IF PushIsNew(current_spans[t], id) THEN 1 ELSE 0)
                   /\ Exit(t, id) =>
                          /\ spans' = spans
                          /\ (calls'[t] /= <<>>) <=> PopRemoves(current_spans[t], id)
                          /\ (calls'[t] /= <<>>) <=> (Entries(id)' = Entries(id) - 1)
                          /\ (calls'[t] = <<>>) <=> (Entries(id)' = Entries(id))
             /\ (TryCloseStart(t) /\ Len(calls[t]) = 2 /\ calls[t][1].op = "exit") =>
                    LET idx == id_to_idx(Top(t).id) IN
                    /\ Get(Top(t).id)
                    /\ (spans[idx].ref_count = 1) =>
                           /\ calls'[t][2].pc = "on_close"
                           /\ spans'[idx].ref_count = 0
                           /\ Entries(Top(t).id) = 0 /\ handles[Top(t).id] = 0
      ]_vars

\* Every handle of a span is gone and the span was still entered; the exit has
\* taken out the entry, its try_close saw the last reference, and the span is
\* in its on_close while another span is entered twice in a row on the thread.
C23_Witness ==
    \E t \in Threads : \E other \in Ids :
        /\ Len(calls[t]) = 2 /\ calls[t][1].op = "exit" /\ InCallback(t)
        /\ handles[Top(t).id] = 0
        /\ spans[id_to_idx(Top(t).id)].ref_count = 0
        /\ current_spans[t] = <<[id |-> other, n |-> 2]>>
        /\ spans[id_to_idx(other)].ref_count = 1 + handles[other]

\* The try_close calls on the span `p` that are in progress.
CloseAttempts(p) ==
    LET Closes(f) == f.op = "try_close" /\ f.id = p
    IN Cardinality(FramesWhere(Closes))

\* C24: clearing a slot takes the parent out of the entry and, when there was
\* one, makes one try_close of it through the subscriber; then the extensions
\* are emptied and the filter map is the default one. The metadata and the
\* count of the cleared entry stay as they were, and in the steps of the clear
\* itself no other entry changes.
C24_ClearFrame ==
    [][\A i \in Idx :
          LET d == spans[i]
              e == spans'[i]
          IN
          /\ (d.life \in {"present", "marked"} /\ e.life \in {"clearing", "free"}) =>
                 /\ e.parent = NoId
                 /\ e.metadata = d.metadata
                 /\ e.ref_count = d.ref_count
                 /\ \A j \in Idx \ {i} : spans'[j] = spans[j]
                 /\ IF d.parent /= NoId
                    THEN /\ e.life = "clearing"
                         /\ e.extensions = d.extensions /\ e.filter_map = d.filter_map
                         /\ \A p \in Ids :
                               CloseAttempts(p)' = CloseAttempts(p)
                                                       + (IF p = d.parent THEN 1 ELSE 0)
                         /\ \E t \in Threads :
                               /\ Len(calls'[t]) = Len(calls[t]) + 2
                               /\ calls'[t][Len(calls'[t])] =
                                      Frame("try_close", d.parent, "start")
                               /\ calls'[t][Len(calls'[t]) - 1].op = "clear"
                               /\ calls'[t][Len(calls'[t]) - 1].id = idx_to_id(i)
                    ELSE /\ e.life = "free"
                         /\ e.extensions = {}
                         /\ e.filter_map = FilterMapDefault
                         /\ \A p \in Ids \ {idx_to_id(i)} :
                               CloseAttempts(p)' = CloseAttempts(p)
          /\ (d.life = "clearing") =>
                 /\ e.parent = NoId
                 /\ e.metadata = d.metadata
                 /\ e.ref_count = d.ref_count
                 /\ (e.life = "free") =>
                        /\ e.extensions = {}
                        /\ e.filter_map = FilterMapDefault
                        /\ \A j \in Idx \ {i} : spans'[j] = spans[j]
                        /\ \A p \in Ids \ {idx_to_id(i)} :
                              CloseAttempts(p)' = CloseAttempts(p)
                 /\ (e.life /= "free") =>
                        /\ e = d
      ]_vars

\* The clear of a child has taken the parent out and called try_close on it,
\* which has not started; the child still has its metadata, its extensions
\* and a filter map that is not the default.
C24_Witness ==
    \E t \in Threads : \E i \in Idx :
        /\ Len(calls[t]) >= 3
        /\ Top(t) = Frame("try_close", created[i].parent, "start")
        /\ calls[t][Len(calls[t]) - 1] = Frame("clear", idx_to_id(i), "finish")
        /\ spans[i].life = "clearing"
        /\ spans[i].parent = NoId /\ created[i].parent /= NoId
        /\ spans[i].metadata = "m2"
        /\ spans[i].extensions /= {}
        /\ spans[i].filter_map /= FilterMapDefault
        /\ CloseAttempts(created[i].parent) = 1

\* C25: a try_close that sees a count over 1 does not panic and returns
\* false, whatever the other threads do between its decrement and its update
\* of the span's SPAN_TRACKER entry.
C25_NonFinalCloseReturnsFalse ==
    [][\A t \in Threads :
          /\ (TryCloseStart(t) /\ Get(Top(t).id)
                  /\ spans[id_to_idx(Top(t).id)].ref_count > 1) =>
                 /\ ~fatal'
                 /\ calls'[t][Len(calls'[t])].pc = "track"
          /\ TryCloseTrack(t) =>
                 /\ ~fatal'
                 /\ calls'[t][Len(calls'[t])].pc = "ret"
                 /\ ~calls'[t][Len(calls'[t])].is_closing
          /\ TryCloseRet(t) => ~fatal'
      ]_vars

\* C26: a span whose last reference is released inside another span's
\* on_close is reclaimed by the time the enclosing close is over: when a
\* thread's calls have all returned its close depth is 0 and no slot is
\* checked out with a count of 0.
C26_NestedCloseReclaims ==
    [][\A t \in Threads :
          (calls[t] /= <<>> /\ calls'[t] = <<>> /\ ~fatal') =>
              /\ CLOSE_COUNT'[t] = 0
              /\ \A idx \in Idx : ~Closed(idx)'
      ]_vars

\* C27: the slot new_span checks out has a count of 0 before it is filled,
\* whatever went before, slots used again and failed clone_span calls
\* included: a clone_span that panics leaves the count of the span as it was.
C27_CheckedOutCountIsZero ==
    [][/\ \A idx \in Idx :
             (spans[idx].life = "free" /\ spans'[idx].life = "present") =>
                 /\ spans[idx].ref_count = 0
                 /\ spans'[idx].ref_count = 1
       /\ \A t \in Threads : \A id \in Ids :
             ((CloneSpanAny(t, id) \/ CloneHandle(t, id)) /\ fatal') =>
                 spans'[id_to_idx(id)].ref_count = spans[id_to_idx(id)].ref_count
      ]_vars

\* The guards a try_close call holds: none before start_close, one per layer
\* from then on, one less after each layer's on_close (the guard that is
\* clearing the slot has counted itself out already).
GuardsOf(f) ==
    IF f.op /= "try_close" \/ f.pc = "start" THEN 0
    ELSE IF f.pc = "on_close" THEN num_layers - (f.layer - 1)
    ELSE IF f.pc = "after_clear" THEN num_layers - f.layer
    ELSE num_layers

\* The guards thread t has made by start_close and has not dropped.
GuardsAlive(t) ==
    LET RECURSIVE Sum(_)
        Sum(i) == IF i = 0 THEN 0 ELSE GuardsOf(calls[t][i]) + Sum(i - 1)
    IN Sum(Len(calls[t]))

\* C28: on every thread CLOSE_COUNT is the number of guards the thread has
\* made and not dropped; it is never under 0, it is 0 when no close is in
\* progress on the thread, and it changes only in the thread's own steps.
C28_CloseCountIsGuards ==
    [][\A t \in Threads :
          /\ ~fatal' =>
                 /\ CLOSE_COUNT'[t] = GuardsAlive(t)'
                 /\ CLOSE_COUNT'[t] >= 0
                 /\ Idle(t)' => CLOSE_COUNT'[t] = 0
          /\ (CLOSE_COUNT'[t] /= CLOSE_COUNT[t]) => calls'[t] /= calls[t]
          /\ (\E u \in Threads \ {t} : calls'[u] /= calls[u]) =>
                 CLOSE_COUNT'[t] = CLOSE_COUNT[t]
      ]_vars

\* Each thread is inside closes of its own, one of them two deep, with
\* different numbers of guards alive.
C28_Witness ==
    \E t \in Threads : \E u \in Threads \ {t} :
        /\ ~fatal
        /\ Len(calls[t]) >= 2 /\ CLOSE_COUNT[t] >= 2
        /\ CLOSE_COUNT[t] = GuardsAlive(t)
        /\ CLOSE_COUNT[u] = 1 /\ GuardsAlive(u) = 1
        /\ num_layers = 2

====
